---- MODULE Spec2Model ----
(***************************************************************************)
(* LpWatermark (src/distance-test/src/App.tsx): the tile construction      *)
(* (merge, getCanvasData, drawText, drawImage), the overlay placement      *)
(* (drawWatermark) and the MutationObserver feedback loop, run on a model  *)
(* of the browser event loop: tasks (React's effect, external scripts,     *)
(* image load/error events) and the microtask queue (promise reactions and *)
(* mutation-observer delivery).                                            *)
(*                                                                         *)
(* Numbers: an optional prop is <<>> (undefined) or <<v>>.  Tile sizes are *)
(* exact rationals [n, d] in lowest terms (d = 0 is NaN); JavaScript's     *)
(* doubles round the same expressions.  Math.sin/Math.cos are tabulated    *)
(* in units of 1/TrigScale for the angles of Rotations.                    *)
(***************************************************************************)
EXTENDS Integers, Sequences, FiniteSets, TLC

VARIABLES props, options, env, children, nodes, containerPosition,
          observers, mutationObserver, invs, mq, running, mounted,
          nmut, deliveredBatches, tamperedBatches, lastOverlay

vars == <<props, options, env, children, nodes, containerPosition,
          observers, mutationObserver, invs, mq, running, mounted,
          nmut, deliveredBatches, tamperedBatches, lastOverlay>>

(* ------------------------------ bounds -------------------------------- *)
\* external DOM mutations performed by scripts in one behaviour
MaxMutations == 3

(* --------------------------- number helpers --------------------------- *)
Abs(x) == IF x < 0 THEN -x ELSE x

RECURSIVE GCD(_, _)
GCD(a, b) == IF b = 0 THEN a ELSE GCD(b, a % b)

NaN == [n |-> 0, d |-> 0]

Rat(n, d) ==
  IF d = 0 THEN NaN
  ELSE LET g == GCD(Abs(n), Abs(d))
           s == IF d < 0 THEN -1 ELSE 1
       IN  [n |-> (s * n) \div g, d |-> (s * d) \div g]

RInt(i) == [n |-> i, d |-> 1]
RAdd(a, b) == IF a.d = 0 \/ b.d = 0 THEN NaN ELSE Rat(a.n * b.d + b.n * a.d, a.d * b.d)
RMul(a, b) == IF a.d = 0 \/ b.d = 0 THEN NaN ELSE Rat(a.n * b.n, a.d * b.d)
RDiv(a, b) == IF a.d = 0 \/ b.d = 0 \/ b.n = 0 THEN NaN ELSE Rat(a.n * b.d, a.d * b.n)

\* Math.ceil of n/d, d > 0
Ceil(n, d) == -((-n) \div d)

\* JavaScript truthiness of an optional number: undefined, 0 and NaN are falsy
Truthy(x) == x # <<>> /\ x[1] # 0

\* an optional number read as a number: undefined is NaN
Num(x) == IF x = <<>> THEN NaN ELSE RInt(x[1])

(* ------------------------------ options ------------------------------- *)
DefaultWidth == 120
DefaultHeight == 64
DefaultRotate == -22
DefaultZIndex == 9
DefaultGap == 100

defaultOptions ==
  [width |-> <<DefaultWidth>>, height |-> <<DefaultHeight>>, text |-> <<>>,
   textStyle |-> [fontSize |-> <<"16px">>, color |-> <<"rgba(0, 0, 0, 0.15)">>,
                  fontFamily |-> <<"sans-serif">>, fontWeight |-> <<"normal">>],
   image |-> <<>>, rotate |-> <<DefaultRotate>>, zIndex |-> <<DefaultZIndex>>,
   gap |-> <<<<DefaultGap, DefaultGap>>>>, offset |-> <<>>]

\* lodash merge of one key: a source value of undefined keeps the destination
mergeValue(dst, src) == IF src = <<>> THEN dst ELSE src

\* merge({}, defaultOptions, props): deep on textStyle, by key elsewhere
merge(dflt, p) ==
  [k \in DOMAIN dflt |->
     IF k = "textStyle"
     THEN [f \in DOMAIN dflt.textStyle |-> mergeValue(dflt.textStyle[f], p.textStyle[f])]
     ELSE mergeValue(dflt[k], p[k])]

(* --------------------------- getCanvasData ---------------------------- *)
TrigScale == 10000
\* Math.sin / Math.cos of (rotate * Math.PI) / 180, times TrigScale
SinT(a) == CASE a = -22 -> -3746 [] a = 0 -> 0 [] a = 45 -> 7071 [] a = 90 -> 10000
CosT(a) == CASE a = -22 -> 9272 [] a = 0 -> 10000 [] a = 45 -> 7071 [] a = 90 -> 0

\* canvas after configCanvas({width, height}) and the draw call, as toDataURL
\* encodes it: backing size (canvasWidth * ratio), rotation, what was drawn
toDataURL(kind, src, width, height, opts, ratio) ==
  LET canvasWidth == RAdd(RInt(opts.gap[1][1]), width)
      canvasHeight == RAdd(RInt(opts.gap[1][2]), height)
  IN  [kind |-> kind, src |-> src,
       cw |-> RMul(canvasWidth, RInt(ratio)), ch |-> RMul(canvasHeight, RInt(ratio)),
       rotate |-> opts.rotate, w |-> width, h |-> height]

\* variant of drawText that ignores options.width / options.height
drawText_Measured(opts, e) ==
  LET a == opts.rotate[1]
      textHeight == e.ascent + e.descent
      tw == Ceil(Abs(SinT(a) * textHeight) + Abs(CosT(a) * e.textWidth), TrigScale)
      th == Ceil(Abs(SinT(a) * e.textWidth) + Abs(textHeight * CosT(a)), TrigScale)
  IN  [base64Url |-> toDataURL("text", opts.text, RInt(tw), RInt(th), opts, e.ratio),
       width |-> RInt(tw), height |-> RInt(th)]

drawText(opts, e) ==
  LET a == opts.rotate[1]
      textHeight == e.ascent + e.descent
      tw == Ceil(Abs(SinT(a) * textHeight) + Abs(CosT(a) * e.textWidth), TrigScale)
      th == Ceil(Abs(SinT(a) * e.textWidth) + Abs(textHeight * CosT(a)), TrigScale)
      width == IF Truthy(opts.width) THEN RInt(opts.width[1]) ELSE RInt(tw)
      height == IF Truthy(opts.height) THEN RInt(opts.height[1]) ELSE RInt(th)
  IN  [base64Url |-> toDataURL("text", opts.text, width, height, opts, e.ratio),
       width |-> width, height |-> height]

\* variant of onload with the two aspect ratios exchanged
onload_Swapped(opts, e) ==
  LET w0 == Num(opts.width)
      h0 == Num(opts.height)
      derive == ~Truthy(opts.width) \/ ~Truthy(opts.height)
      height == IF derive /\ Truthy(opts.width)
                THEN RMul(RDiv(RInt(e.imgWidth), RInt(e.imgHeight)), w0) ELSE h0
      width == IF derive /\ ~Truthy(opts.width)
               THEN RMul(RDiv(RInt(e.imgHeight), RInt(e.imgWidth)), h0) ELSE w0
  IN  [base64Url |-> toDataURL("image", opts.image, width, height, opts, e.ratio),
       width |-> width, height |-> height]

\* img.onload: the value the promise is resolved with
onload(opts, e) ==
  LET w0 == Num(opts.width)
      h0 == Num(opts.height)
      derive == ~Truthy(opts.width) \/ ~Truthy(opts.height)
      height == IF derive /\ Truthy(opts.width)
                THEN RMul(RDiv(RInt(e.imgHeight), RInt(e.imgWidth)), w0) ELSE h0
      width == IF derive /\ ~Truthy(opts.width)
               THEN RMul(RDiv(RInt(e.imgWidth), RInt(e.imgHeight)), h0) ELSE w0
  IN  [base64Url |-> toDataURL("image", opts.image, width, height, opts, e.ratio),
       width |-> width, height |-> height]

NoTile == [base64Url |-> [kind |-> "none"], width |-> NaN, height |-> NaN]

(* ----------------------------- drawWatermark -------------------------- *)
\* offset?.[i] || 0 + "px": a truthy offset is used as the bare number
offsetCss(opts, i) ==
  IF opts.offset # <<>> /\ opts.offset[1][i] # 0
  THEN [n |-> opts.offset[1][i], unit |-> ""]
  ELSE [n |-> 0, unit |-> "px"]

wmStyle(opts, tile) ==
  [left |-> offsetCss(opts, 1), top |-> offsetCss(opts, 2),
   position |-> "absolute", pointerEvents |-> "none", zIndex |-> opts.zIndex,
   bgW |-> RAdd(RInt(opts.gap[1][1]), tile.width),
   bgH |-> RAdd(RInt(opts.gap[1][2]), tile.height),
   bgRepeat |-> "repeat", bgImage |-> tile.base64Url]


\* variant of append that replaces the children instead of adding to them
append_Replace(kids, node) == <<node>>

\* ParentNode.append
append(kids, node) == Append(kids, node)

\* the node ids: the container (containerRef.current), the caller's child
\* (props.children); the k-th overlay created is Sibling + k
Container == 0
Sibling == 1

HasImage(opts) == opts.image # <<>> /\ opts.image[1] # ""

IsOverlay(n) == n > Sibling
Elems(s) == {s[i] : i \in DOMAIN s}
Without(s, n) == SelectSeq(s, LAMBDA x : x # n)

(* -------------------------- MutationObserver -------------------------- *)
ChildList(removed, added) ==
  [type |-> "childList", target |-> Container, removedNodes |-> removed, addedNodes |-> added]
Attributes(n) ==
  [type |-> "attributes", target |-> n, removedNodes |-> <<>>, addedNodes |-> <<>>]

\* a mutation in the container's subtree is queued on every observer that
\* observes the container ({attributes, subtree, childList})
Enqueue(obs, rec) ==
  [o \in DOMAIN obs |->
     IF obs[o].connected THEN [obs[o] EXCEPT !.records = Append(@, rec)] ELSE obs[o]]

NotifyMicrotask == [kind |-> "notify", inv |-> 0]
ResumeMicrotask(i) == [kind |-> "resume", inv |-> i]

\* "queue a mutation observer microtask", once while one is queued
QueueNotify(q, obs) ==
  IF (\E o \in DOMAIN obs : obs[o].records # <<>>) /\ ~(\E j \in DOMAIN q : q[j].kind = "notify")
  THEN Append(q, NotifyMicrotask) ELSE q

\* variant of disconnect that leaves the previous observer observing
disconnect_Skip(obs, cur) == obs

\* mutationObserver.current?.disconnect(): stops observing, drops the queue
disconnect(obs, cur) ==
  IF cur = 0 THEN obs
  ELSE [obs EXCEPT ![cur] = [@ EXCEPT !.connected = FALSE, !.records = <<>>]]

\* variant of observe that creates the observer without observing
observe_Unarmed(obs, watermarkDiv) ==
  Append(obs, [watermarkDiv |-> watermarkDiv, connected |-> FALSE, records |-> <<>>])

\* new MutationObserver(callback) with watermarkDiv in the callback's closure,
\* then observe(containerRef.current, {attributes, subtree, childList})
observe(obs, watermarkDiv) ==
  Append(obs, [watermarkDiv |-> watermarkDiv, connected |-> TRUE, records |-> <<>>])

\* variant of takeRecords whose callback disconnects its observer
takeRecords_Disconnect(obs) ==
  [o \in DOMAIN obs |->
     [obs[o] EXCEPT !.records = <<>>, !.connected = @ /\ obs[o].records = <<>>]]

\* delivery empties each observer's record queue; the callback itself leaves
\* the observer observing
takeRecords(obs) == [o \in DOMAIN obs |-> [obs[o] EXCEPT !.records = <<>>]]

\* variant of isChanged that takes an attribute change of any node
isChanged_AnyAttribute(mutations, watermarkDiv) ==
  \E m \in DOMAIN mutations :
    \/ \E r \in DOMAIN mutations[m].removedNodes : mutations[m].removedNodes[r] = watermarkDiv
    \/ mutations[m].type = "attributes"

\* mutations.some(...): flag of one record, as the callback computes it
isChanged(mutations, watermarkDiv) ==
  \E m \in DOMAIN mutations :
    LET mutation == mutations[m]
        flag1 == IF Len(mutation.removedNodes) # 0
                 THEN \E r \in DOMAIN mutation.removedNodes : mutation.removedNodes[r] = watermarkDiv
                 ELSE FALSE
    IN  IF mutation.type = "attributes" /\ mutation.target = watermarkDiv THEN TRUE ELSE flag1

(* ------------------------------ the state ----------------------------- *)
\* drawWatermark() up to its await: getCanvasData(options) returns
\* drawText()'s resolved promise (the continuation becomes a microtask) or
\* drawImage()'s pending one (img.src is set, the load is under way)
StartDraw(is, q, by) ==
  IF HasImage(options)
  THEN [invs |-> Append(is, [pc |-> "loading", tile |-> NoTile, event |-> "none",
                            discarded |-> NoTile, by |-> by]),
        mq |-> q]
  ELSE [invs |-> Append(is, [pc |-> "resolved", tile |-> drawText(options, env),
                            event |-> "none", discarded |-> NoTile, by |-> by]),
        mq |-> Append(q, ResumeMicrotask(Len(is) + 1))]

InitWith(P, E) ==
  /\ props \in P
  /\ options = merge(defaultOptions, props)
  /\ env \in E
  /\ children = <<Sibling>>
  /\ nodes = <<>>
  /\ containerPosition = "static"
  /\ observers = <<>>
  /\ mutationObserver = 0
  /\ invs = <<>>
  /\ mq = <<>>
  /\ running = "idle"
  /\ mounted = FALSE
  /\ nmut = 0
  /\ deliveredBatches = 0
  /\ tamperedBatches = 0
  /\ lastOverlay = 0

NoStyle == [fontSize |-> <<>>, color |-> <<>>, fontFamily |-> <<>>, fontWeight |-> <<>>]

PropsOf(image, width, height, rotate, gap) ==
  [width |-> width, height |-> height, text |-> <<"CONFIDENTIAL">>,
   textStyle |-> [NoStyle EXCEPT !.color = <<"red">>], image |-> image,
   rotate |-> rotate, zIndex |-> <<>>, gap |-> gap, offset |-> <<>>]

Images == {<<>>, <<"logo.png">>}

SpecProps == {PropsOf(i, w, <<>>, <<>>, <<>>) : i \in Images, w \in {<<>>, <<0>>}}
SpecEnvs == {[textWidth |-> 87, ascent |-> 15, descent |-> 4, ratio |-> 2,
              imgWidth |-> 3, imgHeight |-> 2]}

Init == InitWith(SpecProps, SpecEnvs)

(* --------------------------- React's effect --------------------------- *)
\* useEffect(() => { drawWatermark(); }, [])
Mount ==
  /\ ~mounted /\ running = "idle" /\ mq = <<>>
  /\ mounted' = TRUE
  /\ LET s == StartDraw(invs, mq, 0) IN invs' = s.invs /\ mq' = s.mq
  /\ UNCHANGED <<props, options, env, children, nodes, containerPosition, observers,
                 mutationObserver, running, nmut, deliveredBatches, tamperedBatches, lastOverlay>>

(* ------------------------------ image events -------------------------- *)
ImageLoad(i) ==
  /\ running = "idle" /\ mq = <<>>
  /\ invs[i].pc = "loading"
  /\ invs' = [invs EXCEPT ![i] = [@ EXCEPT !.pc = "resolved", !.event = "load",
                                           !.tile = onload(options, env)]]
  /\ mq' = <<ResumeMicrotask(i)>>
  /\ UNCHANGED <<props, options, env, children, nodes, containerPosition, observers,
                 mutationObserver, running, mounted, nmut, deliveredBatches, tamperedBatches, lastOverlay>>

\* img.onerror = () => { return drawText(); }: the tile is drawn and returned to
\* the event dispatcher; resolve is not called
ImageError(i) ==
  /\ running = "idle" /\ mq = <<>>
  /\ invs[i].pc = "loading"
  /\ invs' = [invs EXCEPT ![i] = [@ EXCEPT !.pc = "errored", !.event = "error",
                                           !.discarded = drawText(options, env)]]
  /\ UNCHANGED <<props, options, env, children, nodes, containerPosition, observers,
                 mutationObserver, mq, running, mounted, nmut, deliveredBatches, tamperedBatches, lastOverlay>>

(* ------------------- drawWatermark after its await -------------------- *)
Resume ==
  /\ running = "idle" /\ mq # <<>> /\ Head(mq).kind = "resume"
  /\ LET i == Head(mq).inv
         watermarkDiv == Sibling + Len(nodes) + 1
         written == Enqueue(Enqueue(observers, ChildList(<<>>, <<watermarkDiv>>)),
                            Attributes(Container))
         old == disconnect(written, mutationObserver)
     IN  /\ nodes' = Append(nodes, [style |-> wmStyle(options, invs[i].tile), altered |-> FALSE])
         /\ children' = append(children, watermarkDiv)
         /\ containerPosition' = "relative"
         /\ observers' = observe(old, watermarkDiv)
         /\ mutationObserver' = Len(old) + 1
         /\ invs' = [invs EXCEPT ![i].pc = "done"]
         /\ mq' = QueueNotify(Tail(mq), written)
         /\ lastOverlay' = watermarkDiv
  /\ UNCHANGED <<props, options, env, running, mounted, nmut, deliveredBatches, tamperedBatches>>

(* -------------------- mutation-observer delivery ---------------------- *)
\* "notify mutation observers": each observer with records gets them as one
\* batch, in creation order; the callback calls drawWatermark() when isChanged
RECURSIVE Deliver(_, _, _, _)
Deliver(k, obs, is, q) ==
  IF k > Len(obs) THEN [invs |-> is, mq |-> q]
  ELSE IF obs[k].records # <<>> /\ isChanged(obs[k].records, obs[k].watermarkDiv)
       THEN LET s == StartDraw(is, q, k) IN Deliver(k + 1, obs, s.invs, s.mq)
       ELSE Deliver(k + 1, obs, is, q)

NotifyMutationObservers ==
  /\ running = "idle" /\ mq # <<>> /\ Head(mq).kind = "notify"
  /\ LET d == Deliver(1, observers, invs, Tail(mq))
     IN  /\ invs' = d.invs
         /\ mq' = d.mq
         /\ tamperedBatches' = tamperedBatches + (Len(d.invs) - Len(invs))
  /\ observers' = takeRecords(observers)
  /\ deliveredBatches' = deliveredBatches
        + Cardinality({o \in DOMAIN observers : observers[o].records # <<>>})
  /\ UNCHANGED <<props, options, env, children, nodes, containerPosition,
                 mutationObserver, running, mounted, nmut, lastOverlay>>

(* ----------------- external scripts on the shared subtree ------------- *)
\* a script is a task: it starts when the microtask queue is empty and may
\* make several mutations before the microtasks it caused run
ScriptBegin ==
  /\ running = "idle" /\ mq = <<>> /\ nmut < MaxMutations
  /\ running' = "script"
  /\ UNCHANGED <<props, options, env, children, nodes, containerPosition, observers,
                 mutationObserver, invs, mq, mounted, nmut, deliveredBatches, tamperedBatches, lastOverlay>>

ScriptEnd ==
  /\ running = "script"
  /\ running' = "idle"
  /\ UNCHANGED <<props, options, env, children, nodes, containerPosition, observers,
                 mutationObserver, invs, mq, mounted, nmut, deliveredBatches, tamperedBatches, lastOverlay>>

External(rec) ==
  /\ running = "script" /\ nmut < MaxMutations
  /\ nmut' = nmut + 1
  /\ LET obs == Enqueue(observers, rec)
     IN  observers' = obs /\ mq' = QueueNotify(mq, obs)
  /\ UNCHANGED <<props, options, env, containerPosition, mutationObserver, invs,
                 running, mounted, deliveredBatches, tamperedBatches, lastOverlay>>

ExtRemove(n) ==
  /\ n \in Elems(children)
  /\ External(ChildList(<<n>>, <<>>))
  /\ children' = Without(children, n)
  /\ UNCHANGED nodes

ExtAppend(n) ==
  /\ n \in (Sibling .. Sibling + Len(nodes)) \ Elems(children)
  /\ External(ChildList(<<>>, <<n>>))
  /\ children' = Append(children, n)
  /\ UNCHANGED nodes

ExtSetAttribute(n) ==
  /\ n \in Elems(children) \cup {Container}
  /\ External(Attributes(n))
  /\ nodes' = IF IsOverlay(n) THEN [nodes EXCEPT ![n - Sibling].altered = TRUE] ELSE nodes
  /\ UNCHANGED children

Next ==
  \/ Mount
  \/ \E i \in DOMAIN invs : ImageLoad(i)
  \/ \E i \in DOMAIN invs : ImageError(i)
  \/ Resume
  \/ NotifyMutationObservers
  \/ ScriptBegin
  \/ ScriptEnd
  \/ \E n \in Container .. Sibling + MaxMutations + 1 :
        ExtRemove(n) \/ ExtAppend(n) \/ ExtSetAttribute(n)

Spec == Init /\ [][Next]_vars

(* ------------- one render, over the option and metric space ----------- *)
Sizes == {<<>>, <<0>>, <<200>>}
Rotations == {<<>>, <<0>>, <<45>>, <<90>>}
Gaps == {<<>>, <<<<50, 50>>>>}

TileProps == {PropsOf(i, w, h, r, g) : i \in Images, w \in Sizes, h \in Sizes,
                                       r \in Rotations, g \in Gaps}
TileEnvs == {[textWidth |-> tw, ascent |-> 15, descent |-> 4, ratio |-> 2,
              imgWidth |-> im[1], imgHeight |-> im[2]] :
               tw \in {40, 87}, im \in {<<3, 2>>, <<1, 49>>}}

TileInit == InitWith(TileProps, TileEnvs)

TileNext ==
  \/ Mount
  \/ \E i \in DOMAIN invs : ImageLoad(i)
  \/ \E i \in DOMAIN invs : ImageError(i)
  \/ Resume

TileSpec == TileInit /\ [][TileNext]_vars


(* ============================ properties ============================== *)
Connected == {o \in DOMAIN observers : observers[o].connected}
Done == {i \in DOMAIN invs : invs[i].pc = "done"}
InFlight == {i \in DOMAIN invs : invs[i].pc # "done"}

\* nothing is left to run unless a new script starts: no script is running,
\* no microtask is queued, no image load is under way
Quiescent ==
  /\ running = "idle" /\ mq = <<>>
  /\ \A i \in DOMAIN invs : invs[i].pc # "loading"

\* the rotated bounding box of the measured text, rounded up
BoxWidth == LET a == options.rotate[1]
            IN  Ceil(Abs(SinT(a)) * (env.ascent + env.descent) + Abs(CosT(a)) * env.textWidth,
                     TrigScale)
BoxHeight == LET a == options.rotate[1]
             IN  Ceil(Abs(SinT(a)) * env.textWidth + Abs(CosT(a)) * (env.ascent + env.descent),
                      TrigScale)

\* C1 (as claimed): when the image fails to load, getCanvasData's promise
\* settles with the tile drawn from text/textStyle (and the render goes on).
C1_ImageErrorFallsBack ==
  \A i \in DOMAIN invs :
    invs[i].event = "error" =>
      /\ invs[i].pc \in {"resolved", "done"}
      /\ invs[i].tile = drawText(options, env)

\* C2 (as claimed): a removal of the guarded overlay is healed. Stated on the
\* states where nothing is left to run: there the overlay the connected
\* observer guards is in the container and carries the style of the options.
C2_TamperAndHeal ==
  (Quiescent /\ Connected # {}) =>
    \A o \in Connected :
      /\ observers[o].watermarkDiv \in Elems(children)
      /\ nodes[observers[o].watermarkDiv - Sibling].style = nodes[1].style

\* the same with the image-load failure of C1 left out of the picture
C2_HealsUnlessLoadFails ==
  (\A i \in DOMAIN invs : invs[i].event # "error") => C2_TamperAndHeal

\* C3 (as claimed): in every state from the mount effect on, exactly one
\* connected observer is attached.
C3_ExactlyOneObserver == mounted => Cardinality(Connected) = 1

\* C3 (amended): at most one observer is connected in every state, it is the
\* one mutationObserver.current holds, and exactly one is connected from the
\* completion of the first render on.
C3_AtMostOneObserver ==
  /\ Cardinality(Connected) <= 1
  /\ Connected \subseteq {mutationObserver}
  /\ (Done # {} => Cardinality(Connected) = 1)

C3_Witness ==
  /\ Len(observers) >= 2
  /\ Cardinality(Connected) = 1
  /\ ~observers[1].connected

TextTiles == {i \in DOMAIN invs : ~HasImage(options)}
\* the image-mode renders whose image has loaded
ImageTiles == {i \in DOMAIN invs : invs[i].event = "load"}

\* C5 (as claimed): a text-mode tile whose caller gave no width and no height
\* has the rotated bounding box of the measured text as its size.
C5_TextTileIsRotatedBox ==
  \A i \in TextTiles :
    (props.width = <<>> /\ props.height = <<>>) =>
      /\ invs[i].tile.width = RInt(BoxWidth)
      /\ invs[i].tile.height = RInt(BoxHeight)

\* C5 (amended): a text-mode tile dimension is the merged option (the caller's
\* value, else the default 120 / 64) when that is not 0, and the rotated
\* bounding box dimension only when the caller passes 0.
C5_TextTileOptionElseBox ==
  \A i \in TextTiles :
    LET w == IF props.width = <<>> THEN DefaultWidth ELSE props.width[1]
        h == IF props.height = <<>> THEN DefaultHeight ELSE props.height[1]
    IN  /\ invs[i].tile.width = RInt(IF w # 0 THEN w ELSE BoxWidth)
        /\ invs[i].tile.height = RInt(IF h # 0 THEN h ELSE BoxHeight)
        /\ \A k \in DOMAIN nodes :
             /\ nodes[k].style.bgW = RInt(options.gap[1][1] + (IF w # 0 THEN w ELSE BoxWidth))
             /\ nodes[k].style.bgH = RInt(options.gap[1][2] + (IF h # 0 THEN h ELSE BoxHeight))

C5_Witness ==
  /\ ~HasImage(options) /\ Len(nodes) = 1
  /\ props.width = <<>> /\ props.height = <<0>>
  /\ options.rotate = <<45>>
  /\ invs[1].tile.width = RInt(DefaultWidth)
  /\ invs[1].tile.height = RInt(BoxHeight)
  /\ BoxHeight # DefaultHeight

\* C6 (as claimed): an image-mode tile whose caller gave exactly one of width
\* and height has the image's aspect ratio.
C6_OneSideKeepsAspect ==
  \A i \in ImageTiles :
    ((props.width = <<>>) # (props.height = <<>>)) =>
      RMul(invs[i].tile.width, RInt(env.imgHeight))
        = RMul(invs[i].tile.height, RInt(env.imgWidth))

\* C6 (amended): with both merged dimensions non-zero the tile is the merged
\* width and height (a missing one is its default, 120 or 64); a dimension is
\* derived from the image's aspect ratio only when the merged value is 0: the
\* height as img.height / img.width * width when the width is not 0, else the
\* width as img.width / img.height * height.
C6_ImageTileDerivation ==
  \A i \in ImageTiles :
    LET w == IF props.width = <<>> THEN DefaultWidth ELSE props.width[1]
        h == IF props.height = <<>> THEN DefaultHeight ELSE props.height[1]
        t == invs[i].tile
    IN  /\ (w # 0 /\ h # 0) => (t.width = RInt(w) /\ t.height = RInt(h))
        /\ (w # 0 /\ h = 0) =>
             (t.width = RInt(w) /\ t.height = Rat(env.imgHeight * w, env.imgWidth))
        /\ (w = 0) =>
             (t.height = RInt(h) /\ t.width = Rat(env.imgWidth * h, env.imgHeight))

C6_Witness ==
  /\ ImageTiles # {}
  /\ props.width = <<200>> /\ props.height = <<0>>
  /\ env.imgWidth = 3 /\ env.imgHeight = 2
  /\ invs[1].tile.height = [n |-> 400, d |-> 3]

\* a record that removes node n, or changes an attribute of node n
Tampers(rec, n) ==
  \/ \E r \in DOMAIN rec.removedNodes : rec.removedNodes[r] = n
  \/ rec.type = "attributes" /\ rec.target = n

\* C7: a delivered batch starts a render exactly when one of its records
\* removes the observer's overlay or changes an attribute of it; drawWatermark
\* is called by nothing but such a delivery and the mount effect.
C7_TamperClassification ==
  [][/\ NotifyMutationObservers =>
          \A o \in DOMAIN observers :
            observers[o].records # <<>> =>
              ((\E i \in DOMAIN invs' : i > Len(invs) /\ invs'[i].by = o)
                 <=> \E m \in DOMAIN observers[o].records :
                       Tampers(observers[o].records[m], observers[o].watermarkDiv))
     /\ Len(invs') # Len(invs) =>
          /\ Len(invs') = Len(invs) + 1
          /\ Mount \/ NotifyMutationObservers]_vars

C7_Witness ==
  /\ deliveredBatches = 2 /\ tamperedBatches = 1
  /\ mq = <<>> /\ running = "idle"
  /\ Len(invs) = 2

\* C8 (as claimed): the observer that detected the tampering is disconnected
\* before the render it started runs, so it is not connected while that
\* render is in flight.
C8_DetectorDisconnectedFirst ==
  \A i \in InFlight :
    (invs[i].by # 0 /\ invs[i].pc \in {"loading", "resolved"}) =>
      ~observers[invs[i].by].connected

\* C8 (amended): delivering a tampered batch disconnects nothing; an observer
\* is disconnected only by the step of a render that, its tile drawn, appends
\* the new overlay and arms the new observer, and that step disconnects the
\* observer mutationObserver.current held.
C8_DisconnectedOnReinsert ==
  [][/\ NotifyMutationObservers =>
          \A o \in DOMAIN observers : observers'[o].connected = observers[o].connected
     /\ \A o \in DOMAIN observers :
          (observers[o].connected /\ ~observers'[o].connected) =>
             /\ o = mutationObserver
             /\ children' = Append(children, Sibling + Len(nodes) + 1)
             /\ Len(observers') = Len(observers) + 1
             /\ observers'[Len(observers')].connected
             /\ mutationObserver' = Len(observers')
     /\ (Resume /\ mutationObserver # 0) => ~observers'[mutationObserver].connected]_vars

\* two renders started by the same, still connected, observer are in flight
C8_Witness ==
  \E i, j \in InFlight :
    /\ i # j
    /\ invs[i].by # 0 /\ invs[i].by = invs[j].by
    /\ invs[i].pc = "loading" /\ invs[j].pc = "loading"
    /\ observers[invs[i].by].connected

\* the render routine never triggers itself: drawWatermark has been called
\* once by the effect and once per tampered batch, and every tampered batch
\* holds at least one mutation made by a script
C9_NoSelfTrigger ==
  /\ Len(invs) = (IF mounted THEN 1 ELSE 0) + tamperedBatches
  /\ tamperedBatches <= nmut

\* C9 (as claimed): after the initial render, once the external mutations
\* have stopped and nothing is left to run, no render is in flight.
C9_QuiescentNoRenderInFlight == (Quiescent /\ Done # {}) => InFlight = {}

\* C10: every connected observer guards the overlay appended last, and is the
\* one mutationObserver.current holds; no other overlay is guarded.
C10_GuardIsLatest ==
  \A o \in Connected :
    /\ observers[o].watermarkDiv = lastOverlay
    /\ o = mutationObserver
    /\ lastOverlay = Sibling + Len(nodes)

\* an overlay of an earlier render is still in the container, unguarded,
\* after overlapping renders have completed
C10_Witness ==
  /\ Len(nodes) >= 3
  /\ Sibling + 1 \in Elems(children)
  /\ Sibling + 2 \in Elems(children)
  /\ invs[2].by = 1 /\ invs[3].by = 1
  /\ Connected = {3}
  /\ observers[3].watermarkDiv = Sibling + 3

====
